---- MODULE Spec2Model ----
(***************************************************************************)
(* Model of pricing_engine.py: the analytic BSM pricer, the implied        *)
(* volatility solver, the BAW approximation and the binomial / trinomial   *)
(* lattices.                                                               *)
(*                                                                         *)
(* Numbers.  Python floats are modelled as fixed-point integers: a real    *)
(* value v is the integer v * SC.  Spot and strike are whole currency      *)
(* units; rates, volatilities, maturities, probabilities, prices and       *)
(* Greeks are in units of 1/SC.  The constant 1e-8 of the code, which is   *)
(* below the resolution 1/SC, is modelled as one unit: the smallest        *)
(* positive value of the grid, so that 0 < 1e-8 < 0.2 < 5.0 keeps its      *)
(* order.  exp, log, sqrt, the normal cdf and pdf are computed (series,    *)
(* integer root, tables) and round to the grid.                            *)
(*                                                                         *)
(* Errors.  A raised Python exception ends the call with                   *)
(* result.kind = "error" and result.err the exception class.               *)
(***************************************************************************)
EXTENDS Integers, Sequences, FiniteSets, TLC

\* ------------------------------------------------------------------ numbers

SC == 1000

Abs(x) == IF x < 0 THEN -x ELSE x

Max(a, b) == IF a >= b THEN a ELSE b

Sign(x) == IF x > 0 THEN 1 ELSE IF x < 0 THEN -1 ELSE 0

\* a / b rounded down, b # 0
Div(a, b) == IF b > 0 THEN a \div b ELSE (-a) \div (-b)

\* x * y of two fixed-point values
Mul(x, y) == (x * y) \div SC

\* x / y of two fixed-point values, y # 0
Quot(x, y) == Div(x * SC, y)

RECURSIVE ISqrtIn(_, _, _)
ISqrtIn(n, lo, hi) ==
    IF lo >= hi THEN lo
    ELSE LET mid == (lo + hi + 1) \div 2
         IN  IF mid * mid <= n THEN ISqrtIn(n, mid, hi) ELSE ISqrtIn(n, lo, mid - 1)

\* math.sqrt(x) for x >= 0
Sqrt(x) == ISqrtIn(x * SC, 0, 46000)

RECURSIVE ExpSeries(_, _, _)
ExpSeries(x, k, acc) ==
    IF k = 0 THEN acc ELSE ExpSeries(x, k - 1, SC + Div(x * acc, k * SC))

\* math.exp(x); arguments below -8 give 0 on the grid
RECURSIVE Exp(_)
Exp(x) ==
    IF x < -8 * SC THEN 0
    ELSE IF Abs(x) <= SC \div 2 THEN ExpSeries(x, 8, SC)
    ELSE Mul(Exp(x \div 2), Exp(x - (x \div 2)))

Ln2 == 693

RECURSIVE AtanhSeries(_, _, _)
AtanhSeries(z, k, acc) ==
    \* sum of z^(2i+1)/(2i+1), i = k down to 0, by Horner in z*z
    IF k < 0 THEN Mul(z, acc)
    ELSE AtanhSeries(z, k - 1, Div(SC, 2 * k + 1) + Mul(Mul(z, z), acc))

\* math.log(a / b) for a > 0, b > 0
RECURSIVE LnRatio(_, _)
LnRatio(a, b) ==
    IF a > 2 * b THEN Ln2 + LnRatio(a, 2 * b)
    ELSE IF 2 * a < b THEN LnRatio(2 * a, b) - Ln2
    ELSE 2 * AtanhSeries(Div((a - b) * SC, a + b), 4, 0)

\* norm.cdf and norm.pdf at 0, 0.25, ..., 4.0
CdfTable == <<500, 599, 691, 773, 841, 894, 933, 960, 977, 988, 994, 997, 999, 999,
              1000, 1000, 1000>>

PdfTable == <<399, 387, 352, 301, 242, 183, 130, 86, 54, 32, 18, 9, 4, 2, 1, 0, 0>>

TableStep == SC \div 4

Interpolate(tab, ax) ==
    LET i == ax \div TableStep
    IN  IF i + 1 >= Len(tab) THEN tab[Len(tab)]
        ELSE tab[i + 1] + Div((tab[i + 2] - tab[i + 1]) * (ax % TableStep), TableStep)

\* norm.cdf(x): cdf(-x) = 1 - cdf(x)
Cdf(x) == IF x >= 0 THEN Interpolate(CdfTable, x) ELSE SC - Interpolate(CdfTable, -x)

\* norm.pdf(x): pdf(-x) = pdf(x)
Pdf(x) == Interpolate(PdfTable, Abs(x))

\* ------------------------------------------------------------------ inputs

None == [kind |-> "none"]

Value(v) == [kind |-> "value", val |-> v]

Error(e) == [kind |-> "error", err |-> e]

\* str.lower() on the option kinds the model draws
Lower(s) == CASE s = "CALL" -> "call" [] s = "Put" -> "put" [] OTHER -> s

OptionTypes == {"call", "put", "CALL", "Put", "straddle"}

Spots == {80, 100, 120}

Strikes == {100}

Maturities == {-1000, 0, 500, 1000}

Rates == {0, 50, 500}

Yields == {0, 50, 500}

Sigmas == {-200, 0, 200, 400}

\* ------------------------------------------------------------------ state

VARIABLES
    pc,      \* control point of the call in progress
    args,    \* arguments of the call in progress
    bsm,     \* the BSMAnalytical object in use, or None
    quotes,  \* prices returned so far for the contract in args, by option kind
    iv,      \* locals of implied_volatility: sigma, low, high, loop counters
    priced,  \* the volatilities implied_volatility has passed to BSMAnalytical
    baw,     \* locals of baw_american_call / baw_american_put: the root q and S_star
    seen,    \* the statements of the BAW functions executed so far
    tree,    \* the BinomialTree / TrinomialTree object in use, or None
    lat,     \* locals of the lattice's price(): style, option values, loop indices
    result   \* outcome of the last finished call

vars == <<pc, args, bsm, quotes, iv, priced, baw, seen, tree, lat, result>>

NoArgs == [fn |-> "none"]

NoLocals == [phase |-> "none"]

Init ==
    /\ pc = "idle"
    /\ args = NoArgs
    /\ bsm = None
    /\ quotes = {}
    /\ iv = NoLocals
    /\ priced = {}
    /\ baw = NoLocals
    /\ seen = {}
    /\ tree = None
    /\ lat = NoLocals
    /\ result = None

\* ------------------------------------------------------------------ BSMAnalytical

\* variant: the validation of line 18 written with < instead of <=
BSMAnalytical_StrictOnly(S, K, T, r, sigma, c, option_type) ==
    LET ot == Lower(option_type)
    IN  IF ot \notin {"call", "put"} THEN Error("ValueError")
        ELSE IF T < 0 \/ sigma < 0 THEN Error("ValueError")
        ELSE [kind |-> "object", S |-> S, K |-> K, T |-> T, r |-> r,
              sigma |-> sigma, c |-> c, option_type |-> ot]

\* BSMAnalytical.__init__: the object, or the exception it raises
BSMAnalytical(S, K, T, r, sigma, c, option_type) ==
    LET ot == Lower(option_type)
    IN  IF ot \notin {"call", "put"} THEN Error("ValueError")
        ELSE IF T <= 0 \/ sigma <= 0 THEN Error("ValueError")
        ELSE [kind |-> "object", S |-> S, K |-> K, T |-> T, r |-> r,
              sigma |-> sigma, c |-> c, option_type |-> ot]

DMax == 100 * SC

\* _d1_d2: a quotient whose divisor underflows the grid saturates at +-DMax
D1(o) ==
    LET sigma_sqrt_T == Mul(o.sigma, Sqrt(o.T))
        num == LnRatio(o.S, o.K) + Mul(o.r - o.c + Mul(o.sigma, o.sigma) \div 2, o.T)
    IN  IF sigma_sqrt_T = 0 THEN Sign(num) * DMax
        ELSE Max(-DMax, -Max(-DMax, -Quot(num, sigma_sqrt_T)))

D2(o) == D1(o) - Mul(o.sigma, Sqrt(o.T))

\* S * exp(-c T) and K * exp(-r T)
DiscSpot(o) == o.S * Exp(Mul(-o.c, o.T))

DiscStrike(o) == o.K * Exp(Mul(-o.r, o.T))

\* variant: the put formula of line 32 with the call's cdf arguments
Price_PutUnmirrored(o) ==
    IF o.option_type = "call"
    THEN (DiscSpot(o) * Cdf(D1(o)) - DiscStrike(o) * Cdf(D2(o))) \div SC
    ELSE (DiscStrike(o) * Cdf(D2(o)) - DiscSpot(o) * Cdf(D1(o))) \div SC

\* BSMAnalytical.price
Price(o) ==
    IF o.option_type = "call"
    THEN (DiscSpot(o) * Cdf(D1(o)) - DiscStrike(o) * Cdf(D2(o))) \div SC
    ELSE (DiscStrike(o) * Cdf(-D2(o)) - DiscSpot(o) * Cdf(-D1(o))) \div SC

\* BSMAnalytical.delta
Delta(o) ==
    IF o.option_type = "call"
    THEN Mul(Exp(Mul(-o.c, o.T)), Cdf(D1(o)))
    ELSE -Mul(Exp(Mul(-o.c, o.T)), Cdf(-D1(o)))

\* BSMAnalytical.vega
Vega(o) == Mul(Mul(DiscSpot(o), Pdf(D1(o))), Sqrt(o.T))

\* The caller constructs a pricer: pricing_engine.BSMAnalytical(...)
BSMNew(S, K, T, r, sigma, c, option_type) ==
    /\ pc = "idle"
    /\ args' = [fn |-> "bsm", S |-> S, K |-> K, T |-> T, r |-> r, sigma |-> sigma,
                c |-> c, option_type |-> option_type]
    /\ LET o == BSMAnalytical(S, K, T, r, sigma, c, option_type)
       IN  IF o.kind = "error"
           THEN /\ bsm' = None
                /\ result' = o
                /\ pc' = "done"
           ELSE /\ bsm' = o
                /\ result' = None
                /\ pc' = "bsm_ready"
    /\ UNCHANGED <<quotes, iv, priced, baw, seen, tree, lat>>

\* The caller constructs the pricer of the other kinds on the same contract
BSMRenew(option_type) ==
    /\ pc = "bsm_ready"
    /\ option_type # args.option_type
    /\ args' = [args EXCEPT !.option_type = option_type]
    /\ LET o == BSMAnalytical(args.S, args.K, args.T, args.r, args.sigma, args.c, option_type)
       IN  IF o.kind = "error"
           THEN /\ bsm' = None
                /\ result' = o
                /\ pc' = "done"
           ELSE /\ bsm' = o
                /\ result' = None
                /\ pc' = "bsm_ready"
    /\ UNCHANGED <<quotes, iv, priced, baw, seen, tree, lat>>

\* bsm.price()
BSMPrice ==
    /\ pc = "bsm_ready"
    /\ result' = [kind |-> "value", what |-> "price", val |-> Price(bsm)]
    /\ quotes' = quotes \cup {[of |-> bsm.option_type, price |-> Price(bsm)]}
    /\ UNCHANGED <<pc, args, bsm, iv, priced, baw, seen, tree, lat>>

\* bsm.delta()
BSMDelta ==
    /\ pc = "bsm_ready"
    /\ result' = [kind |-> "value", what |-> "delta", val |-> Delta(bsm)]
    /\ UNCHANGED <<pc, args, bsm, quotes, iv, priced, baw, seen, tree, lat>>

\* bsm.vega()
BSMVega ==
    /\ pc = "bsm_ready"
    /\ result' = [kind |-> "value", what |-> "vega", val |-> Vega(bsm)]
    /\ UNCHANGED <<pc, args, bsm, quotes, iv, priced, baw, seen, tree, lat>>

BSMNext ==
    \/ /\ pc = "idle"
       /\ \E S \in Spots, K \in Strikes, T \in Maturities, r \in Rates, sigma \in Sigmas,
             c \in Yields, ot \in OptionTypes : BSMNew(S, K, T, r, sigma, c, ot)
    \/ /\ pc = "bsm_ready"
       /\ \E ot \in OptionTypes : BSMRenew(ot)
    \/ BSMPrice
    \/ BSMDelta
    \/ BSMVega

\* ------------------------------------------------------------------ implied_volatility

max_iter == 100

\* 1e-8, the default tol
tol == 1

\* 1e-8, the floor returned at line 92
IV_FLOOR == 1

\* 1e-8, the vega threshold of line 102
VEGA_MIN == 1

\* the admissible band of line 105 and the bracket of line 109: 1e-8 .. 5.0
SIGMA_LOW == 1

SIGMA_HIGH == 5000

\* the Newton start, 0.2
SIGMA_START == 200

\* lines 86-89: the discounted forward intrinsic value
Intrinsic(S, K, T, r, c, option_type) ==
    IF option_type = "call"
    THEN Max(S * Exp(Mul(-c, T)) - K * Exp(Mul(-r, T)), 0)
    ELSE Max(K * Exp(Mul(-r, T)) - S * Exp(Mul(-c, T)), 0)

\* variant: line 91 written with < instead of <=
AtOrBelowIntrinsic_Strict(market_price, intrinsic) == market_price < intrinsic

\* line 91
AtOrBelowIntrinsic(market_price, intrinsic) == market_price <= intrinsic

\* line 100
WithinTol(diff) == Abs(diff) < tol

\* line 105
OutsideBand(sigma_new) == sigma_new < SIGMA_LOW \/ sigma_new > SIGMA_HIGH

IVPrices == {-1000, 0, 1000, 4000, 10000, 30000, 200000}

IVSpots == {80, 100, 250}

IVMaturities == {-1000, 0, 1000}

IVRates == {0, 50}

IVYields == {0, 50}

IVOptionTypes == {"call", "put", "CALL"}

\* lines 82-94: the entry checks
IVCall(market_price, S, K, T, r, c, option_type) ==
    /\ pc = "idle"
    /\ args' = [fn |-> "iv", market_price |-> market_price, S |-> S, K |-> K, T |-> T,
                r |-> r, c |-> c, option_type |-> option_type]
    /\ IF market_price < 0
       THEN /\ result' = Error("ValueError")
            /\ pc' = "done"
            /\ iv' = [phase |-> "entry", sigma |-> 0, low |-> 0, high |-> 0, n |-> 0, b |-> 0]
       ELSE IF AtOrBelowIntrinsic(market_price, Intrinsic(S, K, T, r, c, option_type))
       THEN /\ result' = Value(IV_FLOOR)
            /\ pc' = "done"
            /\ iv' = [phase |-> "entry", sigma |-> 0, low |-> 0, high |-> 0, n |-> 0, b |-> 0]
       ELSE /\ result' = None
            /\ pc' = "newton"
            /\ iv' = [phase |-> "newton", sigma |-> SIGMA_START, low |-> 0, high |-> 0,
                      n |-> 0, b |-> 0]
    /\ UNCHANGED <<bsm, quotes, priced, baw, seen, tree, lat>>

\* variant: the bracket of line 109 narrowed to Newton's last iterate
EnterBisection_FromIterate(l) ==
    [l EXCEPT !.phase = "bisect", !.low = SIGMA_LOW, !.high = l.sigma]

\* line 109: the bisection phase starts
EnterBisection(l) == [l EXCEPT !.phase = "bisect", !.low = SIGMA_LOW, !.high = SIGMA_HIGH]

\* lines 95-107: one iteration of the Newton loop
NewtonIter ==
    /\ pc = "newton"
    /\ iv.n < max_iter
    /\ priced' = priced \cup {iv.sigma}
    /\ LET o == BSMAnalytical(args.S, args.K, args.T, args.r, iv.sigma, args.c,
                              args.option_type)
       IN  IF o.kind = "error"
           THEN /\ result' = o
                /\ pc' = "done"
                /\ iv' = iv
           ELSE LET price == Price(o)
                    vega == Vega(o)
                    diff == price - args.market_price
                    sigma_new == iv.sigma - Quot(diff, vega)
                    counted == [iv EXCEPT !.n = iv.n + 1]
                IN  IF WithinTol(diff)
                    THEN /\ result' = Value(iv.sigma)
                         /\ pc' = "done"
                         /\ iv' = counted
                    ELSE IF vega < VEGA_MIN
                    THEN /\ result' = None
                         /\ pc' = "bisect"
                         /\ iv' = EnterBisection(counted)
                    ELSE IF OutsideBand(sigma_new)
                    THEN /\ result' = None
                         /\ pc' = "bisect"
                         /\ iv' = EnterBisection(counted)
                    ELSE /\ result' = None
                         /\ pc' = "newton"
                         /\ iv' = [counted EXCEPT !.sigma = sigma_new]
    /\ UNCHANGED <<args, bsm, quotes, baw, seen, tree, lat>>

\* line 95: the Newton loop has run max_iter times
NewtonExhausted ==
    /\ pc = "newton"
    /\ iv.n >= max_iter
    /\ pc' = "bisect"
    /\ iv' = EnterBisection(iv)
    /\ UNCHANGED <<args, bsm, quotes, priced, baw, seen, tree, lat, result>>

\* lines 110-119: one iteration of the bisection loop
BisectIter ==
    /\ pc = "bisect"
    /\ iv.b < max_iter
    /\ LET mid == (iv.low + iv.high) \div 2
           o == BSMAnalytical(args.S, args.K, args.T, args.r, mid, args.c, args.option_type)
           counted == [iv EXCEPT !.b = iv.b + 1, !.sigma = mid]
       IN  /\ priced' = priced \cup {mid}
           /\ IF o.kind = "error"
              THEN /\ result' = o
                   /\ pc' = "done"
                   /\ iv' = iv
              ELSE LET price == Price(o)
                   IN  IF WithinTol(price - args.market_price)
                       THEN /\ result' = Value(mid)
                            /\ pc' = "done"
                            /\ iv' = counted
                       ELSE /\ result' = None
                            /\ pc' = "bisect"
                            /\ iv' = IF price > args.market_price
                                     THEN [counted EXCEPT !.high = mid]
                                     ELSE [counted EXCEPT !.low = mid]
    /\ UNCHANGED <<args, bsm, quotes, baw, seen, tree, lat>>

\* variant: line 120 raising a non-convergence error instead of returning
BisectExhausted_Raises ==
    /\ pc = "bisect"
    /\ iv.b >= max_iter
    /\ result' = Error("RuntimeError")
    /\ pc' = "done"
    /\ UNCHANGED <<args, bsm, quotes, iv, priced, baw, seen, tree, lat>>

\* line 120: the bisection loop has run max_iter times
BisectExhausted ==
    /\ pc = "bisect"
    /\ iv.b >= max_iter
    /\ result' = Value((iv.low + iv.high) \div 2)
    /\ pc' = "done"
    /\ UNCHANGED <<args, bsm, quotes, iv, priced, baw, seen, tree, lat>>

IVNext ==
    \/ /\ pc = "idle"
       /\ \E mp \in IVPrices, S \in IVSpots, K \in Strikes, T \in IVMaturities,
             r \in IVRates, c \in IVYields, ot \in IVOptionTypes :
               IVCall(mp, S, K, T, r, c, ot)
    \/ NewtonIter
    \/ NewtonExhausted
    \/ BisectIter
    \/ BisectExhausted

\* ------------------------------------------------------------------ BAW

BAWSpots == {80, 100, 120}

BAWMaturities == {0, 1000}

BAWRates == {0, 50, 100}

BAWYields == {0, 20, 50, 100}

BAWSigmas == {-200, 0, 200, 400}

\* (r - c - sigma**2/2)
Drift(r, sigma, c) == r - c - Mul(sigma, sigma) \div 2

\* the argument of math.sqrt in lines 126 and 138, in units of 1/SC^2
Discriminant(r, sigma, c) == Drift(r, sigma, c) * Drift(r, sigma, c) + 2 * r * Mul(sigma, sigma)

\* variant: line 123 written with > instead of >=
YieldAtLeastRate_Strict(c, r) == c > r

\* line 123
YieldAtLeastRate(c, r) == c >= r

\* line 126, the quotient once its square root and its divisor are defined
Q2(r, sigma, c) ==
    Quot(-Drift(r, sigma, c) + ISqrtIn(Discriminant(r, sigma, c), 0, 46000), Mul(sigma, sigma))

\* line 138, the quotient once its square root and its divisor are defined
Q1(r, sigma, c) ==
    Quot(-Drift(r, sigma, c) - ISqrtIn(Discriminant(r, sigma, c), 0, 46000), Mul(sigma, sigma))

\* (1 - 1/q) of lines 127 and 139, q # 0
CriticalDenominator(q) == SC - Quot(SC, q)

\* lines 126-127 and 138-139: the root and the critical price, or the exception raised
Roots(K, r, sigma, c, q) ==
    IF Discriminant(r, sigma, c) < 0 THEN [out |-> Error("ValueError"), at |-> "q"]
    ELSE IF Mul(sigma, sigma) = 0 THEN [out |-> Error("ZeroDivisionError"), at |-> "q"]
    ELSE IF q = 0 THEN [out |-> Error("ZeroDivisionError"), at |-> "S_star"]
    ELSE IF CriticalDenominator(q) = 0 THEN [out |-> Error("ZeroDivisionError"), at |-> "S_star"]
    ELSE [out |-> [kind |-> "roots", q |-> q,
                   S_star |-> Div(K * SC * SC, CriticalDenominator(q))],
          at |-> "S_star"]

\* (S / S_star) ** q for S / S_star > 0
Pow(S, S_star, q) == Exp(Mul(q, LnRatio(S * SC, S_star)))

\* lines 133-135: european + A2 * (S / S_star)**q2
CallPremium(o, q2, S_star) ==
    LET d1 == D1(o)
        A2 == Mul(Quot(S_star, q2),
                  SC - Mul(Exp(Mul(-o.c, o.T)), Cdf(d1 + Mul(o.sigma, Sqrt(o.T)))))
    IN  Mul(A2, Pow(o.S, S_star, q2))

\* lines 145-147: european + A1 * (S / S_star)**q1
PutPremium(o, q1, S_star) ==
    LET d1 == D1(o)
        A1 == Mul(Quot(-S_star, q1),
                  SC - Mul(Exp(Mul(-o.c, o.T)), Cdf(-(d1 + Mul(o.sigma, Sqrt(o.T))))))
    IN  Mul(A1, Pow(o.S, S_star, q1))

\* lines 122-125: baw_american_call is entered
BAWCallStart(S, K, T, r, sigma, c) ==
    /\ pc = "idle"
    /\ args' = [fn |-> "baw_call", S |-> S, K |-> K, T |-> T, r |-> r, sigma |-> sigma,
                c |-> c]
    /\ IF YieldAtLeastRate(c, r)
       THEN LET o == BSMAnalytical(S, K, T, r, sigma, c, "call")
            IN  /\ result' = IF o.kind = "error" THEN o ELSE Value(Price(o))
                /\ seen' = {"european"}
                /\ pc' = "done"
       ELSE /\ result' = None
            /\ seen' = {}
            /\ pc' = "baw_call_roots"
    /\ UNCHANGED <<bsm, quotes, iv, priced, baw, tree, lat>>

\* lines 126-127
BAWCallRoots ==
    /\ pc = "baw_call_roots"
    /\ LET got == Roots(args.K, args.r, args.sigma, args.c,
                        IF Discriminant(args.r, args.sigma, args.c) < 0
                           \/ Mul(args.sigma, args.sigma) = 0
                        THEN 0 ELSE Q2(args.r, args.sigma, args.c))
       IN  /\ seen' = seen \cup (IF got.at = "q" THEN {"q2"} ELSE {"q2", "S_star"})
           /\ IF got.out.kind = "error"
              THEN /\ result' = got.out
                   /\ pc' = "done"
                   /\ baw' = baw
              ELSE /\ result' = None
                   /\ pc' = "baw_call_branch"
                   /\ baw' = got.out
    /\ UNCHANGED <<args, bsm, quotes, iv, priced, tree, lat>>

\* lines 128-135
BAWCallFinish ==
    /\ pc = "baw_call_branch"
    /\ IF args.S * SC >= baw.S_star
       THEN /\ result' = Value((args.S - args.K) * SC)
            /\ seen' = seen \cup {"exercise"}
       ELSE LET o == BSMAnalytical(args.S, args.K, args.T, args.r, args.sigma, args.c, "call")
            IN  /\ result' = IF o.kind = "error" THEN o
                             ELSE Value(Price(o) + CallPremium(o, baw.q, baw.S_star))
                /\ seen' = seen \cup {"european"}
    /\ pc' = "done"
    /\ UNCHANGED <<args, bsm, quotes, iv, priced, baw, tree, lat>>

\* lines 137-139: baw_american_put is entered
BAWPutRoots(S, K, T, r, sigma, c) ==
    /\ pc = "idle"
    /\ args' = [fn |-> "baw_put", S |-> S, K |-> K, T |-> T, r |-> r, sigma |-> sigma,
                c |-> c]
    /\ LET got == Roots(K, r, sigma, c,
                        IF Discriminant(r, sigma, c) < 0 \/ Mul(sigma, sigma) = 0
                        THEN 0 ELSE Q1(r, sigma, c))
       IN  /\ seen' = (IF got.at = "q" THEN {"q1"} ELSE {"q1", "S_star"})
           /\ IF got.out.kind = "error"
              THEN /\ result' = got.out
                   /\ pc' = "done"
                   /\ baw' = baw
              ELSE /\ result' = None
                   /\ pc' = "baw_put_branch"
                   /\ baw' = got.out
    /\ UNCHANGED <<bsm, quotes, iv, priced, tree, lat>>

\* lines 140-147
BAWPutFinish ==
    /\ pc = "baw_put_branch"
    /\ IF args.S * SC <= baw.S_star
       THEN /\ result' = Value((args.K - args.S) * SC)
            /\ seen' = seen \cup {"exercise"}
       ELSE LET o == BSMAnalytical(args.S, args.K, args.T, args.r, args.sigma, args.c, "put")
            IN  /\ result' = IF o.kind = "error" THEN o
                             ELSE Value(Price(o) + PutPremium(o, baw.q, baw.S_star))
                /\ seen' = seen \cup {"european"}
    /\ pc' = "done"
    /\ UNCHANGED <<args, bsm, quotes, iv, priced, baw, tree, lat>>

BAWNext ==
    \/ /\ pc = "idle"
       /\ \E S \in BAWSpots, K \in Strikes, T \in BAWMaturities, r \in BAWRates,
             sigma \in BAWSigmas, c \in BAWYields : BAWCallStart(S, K, T, r, sigma, c)
    \/ BAWCallRoots
    \/ BAWCallFinish
    \/ /\ pc = "idle"
       /\ \E S \in BAWSpots, K \in Strikes, T \in BAWMaturities, r \in BAWRates,
             sigma \in BAWSigmas, c \in BAWYields : BAWPutRoots(S, K, T, r, sigma, c)
    \/ BAWPutFinish

\* ------------------------------------------------------------------ lattices

MaxSteps == 3

Steps == -2 .. MaxSteps

LatSpots == {80, 100, 120}

LatMaturities == {-1000, 1000}

LatRates == {0, 50, 500}

LatYields == {0, 500}

LatSigmas == {-200, 0, 100, 200}

LatOptionTypes == {"call", "put"}

Styles == {"american", "european"}

\* _intrinsic of both trees, S in units of 1/SC
LatIntrinsic(t, S) ==
    IF t.option_type = "call" THEN Max(S - t.K * SC, 0) ELSE Max(t.K * SC - S, 0)

\* lines 163-167: stock_tree[j, i] for j <= i
RECURSIVE StockNode(_, _, _, _, _)
StockNode(S0, u, d, j, i) ==
    IF i = 0 THEN S0 * SC
    ELSE IF j = 0 THEN Mul(StockNode(S0, u, d, 0, i - 1), u)
    ELSE Mul(StockNode(S0, u, d, j - 1, i - 1), d)

\* BinomialTree.__init__: the object, or the exception it raises
BinomialTree(T, S0, r, sigma, c, K, n, option_type) ==
    IF n = 0 THEN Error("ZeroDivisionError")
    ELSE LET dt == Div(T, n)
         IN  IF dt < 0 THEN Error("ValueError")
             ELSE LET u == Exp(Mul(sigma, Sqrt(dt)))
                      d == Quot(SC, u)
                  IN  IF u - d = 0 THEN Error("ZeroDivisionError")
                      ELSE IF n + 1 < 0 THEN Error("ValueError")
                      ELSE IF n + 1 = 0 THEN Error("IndexError")
                      ELSE [kind |-> "binomial", T |-> T, S0 |-> S0, r |-> r,
                            sigma |-> sigma, c |-> c, K |-> K, n |-> n,
                            option_type |-> Lower(option_type), dt |-> dt, u |-> u, d |-> d,
                            q |-> Quot(Exp(Mul(r - c, dt)) - d, u - d),
                            R |-> Exp(Mul(r, dt)),
                            stock_tree |-> [x \in (0 .. n) \X (0 .. n) |->
                                             IF x[1] <= x[2]
                                             THEN StockNode(S0, u, d, x[1], x[2]) ELSE 0]]

\* line 177
BinContinuation(t, up, down) == Div(t.q * up + (SC - t.q) * down, t.R)

\* lines 178-182, and 221-225 of the trinomial tree
NodeValue(style, cont, ex) == IF style = "american" THEN Max(cont, ex) ELSE cont

Sqrt3 == Sqrt(3 * SC)

\* the second term of p_u and p_d, lines 194-195
TriShift(r, sigma, c, dt) ==
    Quot(Mul(r - c - Mul(sigma, sigma) \div 2, Sqrt(dt)), Mul(2 * sigma, Sqrt3))

\* TrinomialTree.__init__: the object, or the exception it raises
TrinomialTree(T, S0, r, sigma, c, K, n, option_type) ==
    IF n = 0 THEN Error("ZeroDivisionError")
    ELSE LET dt == Div(T, n)
         IN  IF dt < 0 THEN Error("ValueError")
             ELSE IF Mul(2 * sigma, Sqrt3) = 0 THEN Error("ZeroDivisionError")
             ELSE LET p_u == Max(SC \div 6 + TriShift(r, sigma, c, dt), 0)
                      p_d == Max(SC \div 6 - TriShift(r, sigma, c, dt), 0)
                  IN  [kind |-> "trinomial", T |-> T, S0 |-> S0, r |-> r, sigma |-> sigma,
                       c |-> c, K |-> K, n |-> n, option_type |-> Lower(option_type),
                       dt |-> dt, dr |-> Mul(sigma, Sqrt(3 * dt)),
                       p_u |-> p_u, p_d |-> p_d, p_m |-> SC - p_u - p_d,
                       R |-> Exp(Mul(r, dt))]

\* math.exp(lnS0 + k * self.dr)
TriStock(t, k) == t.S0 * Exp(k * t.dr)

\* line 220
TriContinuation(t, up, mid, down) == Div(t.p_u * up + t.p_m * mid + t.p_d * down, t.R)

\* The caller constructs a tree
TreeNew(class, T, S0, r, sigma, c, K, n, option_type) ==
    /\ pc = "idle"
    /\ args' = [fn |-> class, T |-> T, S |-> S0, r |-> r, sigma |-> sigma, c |-> c,
                K |-> K, n |-> n, option_type |-> option_type]
    /\ LET t == IF class = "binomial"
                THEN BinomialTree(T, S0, r, sigma, c, K, n, option_type)
                ELSE TrinomialTree(T, S0, r, sigma, c, K, n, option_type)
       IN  IF t.kind = "error"
           THEN /\ tree' = None
                /\ result' = t
                /\ pc' = "done"
           ELSE /\ tree' = t
                /\ result' = None
                /\ pc' = "tree_ready"
    /\ UNCHANGED <<bsm, quotes, iv, priced, baw, seen, lat>>

\* BinomialTree.price, lines 173-175: the terminal layer
BinPriceStart(style) ==
    /\ pc = "tree_ready"
    /\ tree.kind = "binomial"
    /\ \A x \in quotes : x.of # style
    /\ lat' = [style |-> style,
               option |-> [j \in 0 .. tree.n |-> LatIntrinsic(tree, tree.stock_tree[<<j, tree.n>>])],
               i |-> tree.n - 1, j |-> 0]
    /\ pc' = "bin_loop"
    /\ result' = None
    /\ UNCHANGED <<args, bsm, quotes, iv, priced, baw, seen, tree>>

\* variant: the inner loop of line 176 run from j = i down to 0
BinNode_Descending ==
    /\ pc = "bin_loop"
    /\ lat.i >= 0
    /\ LET jj == lat.i - lat.j
           cont == BinContinuation(tree, lat.option[jj], lat.option[jj + 1])
           ex == LatIntrinsic(tree, tree.stock_tree[<<jj, lat.i>>])
           last == lat.j = lat.i
       IN  lat' = [lat EXCEPT !.option[jj] = NodeValue(lat.style, cont, ex),
                              !.i = IF last THEN lat.i - 1 ELSE lat.i,
                              !.j = IF last THEN 0 ELSE lat.j + 1]
    /\ UNCHANGED <<pc, args, bsm, quotes, iv, priced, baw, seen, tree, result>>

\* lines 176-182: node j of step i
BinNode ==
    /\ pc = "bin_loop"
    /\ lat.i >= 0
    /\ LET cont == BinContinuation(tree, lat.option[lat.j], lat.option[lat.j + 1])
           ex == LatIntrinsic(tree, tree.stock_tree[<<lat.j, lat.i>>])
           last == lat.j = lat.i
       IN  lat' = [lat EXCEPT !.option[lat.j] = NodeValue(lat.style, cont, ex),
                              !.i = IF last THEN lat.i - 1 ELSE lat.i,
                              !.j = IF last THEN 0 ELSE lat.j + 1]
    /\ UNCHANGED <<pc, args, bsm, quotes, iv, priced, baw, seen, tree, result>>

\* line 183
BinReturn ==
    /\ pc = "bin_loop"
    /\ lat.i < 0
    /\ result' = Value(lat.option[0])
    /\ quotes' = quotes \cup {[of |-> lat.style, price |-> lat.option[0]]}
    /\ pc' = "tree_ready"
    /\ UNCHANGED <<args, bsm, iv, priced, baw, seen, tree, lat>>

\* line 214: j = i - step
Offset(step, i) == i - step

\* line 216
IdxBase(step) == step + 1

\* line 217
IdxUp(step, i) == (Offset(step, i) + 1) + IdxBase(step)

\* line 218
IdxMid(step, i) == Offset(step, i) + IdxBase(step)

\* variant: line 219 without the - 1
IdxDown_SameAsMid(step, i) == Offset(step, i) + IdxBase(step)

\* line 219
IdxDown(step, i) == (Offset(step, i) - 1) + IdxBase(step)

\* TrinomialTree.price, lines 205-208: the terminal layer, then the first new_option
TriPriceStart(style) ==
    /\ pc = "tree_ready"
    /\ tree.kind = "trinomial"
    /\ \A x \in quotes : x.of # style
    /\ lat' = [style |-> style,
               option |-> [i \in 0 .. 2 * tree.n |->
                             LatIntrinsic(tree, TriStock(tree, i - tree.n))],
               new_option |-> [i \in 0 .. 2 * (tree.n - 1) |-> 0],
               step |-> tree.n - 1, i |-> 0]
    /\ pc' = "tri_loop"
    /\ result' = None
    /\ UNCHANGED <<args, bsm, quotes, iv, priced, baw, seen, tree>>

\* lines 213-226: node i of the current step
TriNode ==
    /\ pc = "tri_loop"
    /\ lat.step >= 0
    /\ LET j == Offset(lat.step, lat.i)
           idx_up == IdxUp(lat.step, lat.i)
           idx_mid == IdxMid(lat.step, lat.i)
           idx_down == IdxDown(lat.step, lat.i)
           cont == TriContinuation(tree, lat.option[idx_up], lat.option[idx_mid],
                                   lat.option[idx_down])
           ex == LatIntrinsic(tree, TriStock(tree, j))
           filled == [lat.new_option EXCEPT ![lat.i] = NodeValue(lat.style, cont, ex)]
           last == lat.i = 2 * lat.step
       IN  lat' = IF last
                  THEN [lat EXCEPT !.option = filled,
                                   !.new_option = [i \in 0 .. 2 * (lat.step - 1) |-> 0],
                                   !.step = lat.step - 1, !.i = 0]
                  ELSE [lat EXCEPT !.new_option = filled, !.i = lat.i + 1]
    /\ UNCHANGED <<pc, args, bsm, quotes, iv, priced, baw, seen, tree, result>>

\* line 227: option[0], an IndexError on the empty array of a negative n
TriReturn ==
    /\ pc = "tri_loop"
    /\ lat.step < 0
    /\ IF DOMAIN lat.option = {}
       THEN /\ result' = Error("IndexError")
            /\ quotes' = quotes
            /\ pc' = "done"
       ELSE /\ result' = Value(lat.option[0])
            /\ quotes' = quotes \cup {[of |-> lat.style, price |-> lat.option[0]]}
            /\ pc' = "tree_ready"
    /\ UNCHANGED <<args, bsm, iv, priced, baw, seen, tree, lat>>

LatticeNext ==
    \/ /\ pc = "idle"
       /\ \E class \in {"binomial", "trinomial"}, T \in LatMaturities, S0 \in LatSpots,
             r \in LatRates, sigma \in LatSigmas, c \in LatYields, K \in Strikes,
             n \in Steps, ot \in LatOptionTypes :
               TreeNew(class, T, S0, r, sigma, c, K, n, ot)
    \/ \E style \in Styles : BinPriceStart(style)
    \/ BinNode
    \/ BinReturn
    \/ \E style \in Styles : TriPriceStart(style)
    \/ TriNode
    \/ TriReturn

\* ------------------------------------------------------------------ specification

Next ==
    \/ BSMNext
    \/ IVNext
    \/ BAWNext
    \/ LatticeNext

Spec == Init /\ [][Next]_vars

\* ------------------------------------------------------------------ claims

CallPutAnyCase == {"call", "put", "CALL", "Put"}

BadPricerInput == args.T <= 0 \/ args.sigma <= 0 \/ args.option_type \notin CallPutAnyCase

\* C1: constructing BSMAnalytical raises the validation error, leaves no pricer
\* object and returns no price or Greek, whenever T <= 0, sigma <= 0 or the
\* option kind, compared case-insensitively, is neither call nor put; for every
\* other input the construction succeeds.
C1_ConstructionValidates ==
    args.fn = "bsm" =>
        /\ BadPricerInput =>
              /\ pc = "done"
              /\ result = Error("ValueError")
              /\ bsm = None
        /\ ~BadPricerInput =>
              /\ pc = "bsm_ready"
              /\ bsm.kind = "object"
              /\ bsm.option_type \in {"call", "put"}
              /\ result.kind # "error"

C1_Witness ==
    /\ args.fn = "bsm"
    /\ args.T = 0
    /\ args.sigma > 0
    /\ args.option_type = "Put"
    /\ result = Error("ValueError")

\* C2: every call of implied_volatility with T <= 0 ends in an error, whatever
\* the market price is.
C2_NonPositiveMaturityRaises ==
    (args.fn = "iv" /\ args.T <= 0 /\ pc = "done") => result.kind = "error"

\* the discounted forward intrinsic value, as the claim C3 states it
ForwardIntrinsic ==
    LET fwd == args.S * Exp(Mul(-args.c, args.T)) - args.K * Exp(Mul(-args.r, args.T))
    IN  IF args.option_type = "call" THEN Max(fwd, 0) ELSE Max(-fwd, 0)

\* C3: for a call or a put, a non-negative market price at or below the
\* discounted forward intrinsic value makes implied_volatility return the floor
\* 1e-8 at once, with no Newton or bisection iteration and no pricer call; a
\* negative market price is rejected with an error.
C3_FloorAtOrBelowIntrinsic ==
    (args.fn = "iv" /\ args.option_type \in {"call", "put"}) =>
        /\ args.market_price < 0 =>
              /\ pc = "done"
              /\ result = Error("ValueError")
              /\ priced = {}
        /\ (args.market_price >= 0 /\ args.market_price <= ForwardIntrinsic) =>
              /\ pc = "done"
              /\ result = Value(IV_FLOOR)
              /\ priced = {}
              /\ iv.n = 0
              /\ iv.b = 0

C3_Witness ==
    /\ args.fn = "iv"
    /\ args.option_type = "call"
    /\ args.T > 0
    /\ args.market_price > 0
    /\ args.market_price <= ForwardIntrinsic
    /\ result = Value(IV_FLOOR)

\* C4: for both lattices, an input with n < 1 or sigma <= 0 ends in an error
\* during construction or pricing and never yields a numeric price.
C4_LatticeRejectsDegenerate ==
    (args.fn \in {"binomial", "trinomial"} /\ (args.n < 1 \/ args.sigma <= 0)) =>
        /\ result.kind # "value"
        /\ quotes = {}
        /\ pc = "done" => result.kind = "error"

\* the root the BAW function of the call in args divides by, when sigma # 0
BAWRoot ==
    IF args.fn = "baw_call" THEN Q2(args.r, args.sigma, args.c)
    ELSE Q1(args.r, args.sigma, args.c)

\* the call in args reaches the divisions of lines 126-127 / 138-139 with a
\* zero divisor
BAWDegenerate ==
    /\ args.fn = "baw_call" => ~YieldAtLeastRate(args.c, args.r)
    /\ \/ args.sigma = 0
       \/ /\ args.sigma # 0
          /\ Discriminant(args.r, args.sigma, args.c) >= 0
          /\ (BAWRoot = 0 \/ CriticalDenominator(BAWRoot) = 0)

\* C5: when sigma is 0, or the root is 0, or 1 - 1/q is 0, baw_american_call
\* and baw_american_put fail with the pricer's validation error (ValueError)
\* instead of evaluating the division, and return no number.
C5_BAWGuardsDenominators ==
    (args.fn \in {"baw_call", "baw_put"} /\ pc = "done" /\ BAWDegenerate) =>
        result = Error("ValueError")

\* C6: for T > 0, sigma > 0 and c >= r, baw_american_call returns exactly the
\* BSM call price of the same arguments and executes neither the q2 nor the
\* S_star statement; baw_american_put has no such shortcut: it always executes
\* the q1 and S_star statements, also when c >= r.
C6_CallShortcutOnly ==
    /\ (args.fn = "baw_call" /\ args.T > 0 /\ args.sigma > 0 /\ args.c >= args.r) =>
          /\ pc = "done"
          /\ result = Value(Price(BSMAnalytical(args.S, args.K, args.T, args.r, args.sigma,
                                                args.c, "call")))
          /\ seen = {"european"}
    /\ (args.fn = "baw_put" /\ args.T > 0 /\ args.sigma > 0) =>
          /\ {"q1", "S_star"} \subseteq seen
          /\ pc = "done" => seen # {"european"}

C6_Witness ==
    /\ args.fn = "baw_call"
    /\ args.T > 0
    /\ args.sigma > 0
    /\ args.c = args.r
    /\ args.r > 0
    /\ result.kind = "value"
    /\ result.val > 0

ValidContract == args.T > 0 /\ args.sigma > 0

\* C7: for valid parameters the American price is never below the European
\* price of the same contract: on the binomial and the trinomial lattice for
\* every n >= 1, and for BAW against the analytic BSM price.
C7_AmericanAtLeastEuropean ==
    /\ (args.fn \in {"binomial", "trinomial"} /\ ValidContract /\ args.n >= 1) =>
          \A a \in quotes, e \in quotes :
              (a.of = "american" /\ e.of = "european") => a.price >= e.price
    /\ (args.fn \in {"baw_call", "baw_put"} /\ ValidContract /\ pc = "done"
          /\ result.kind = "value") =>
          result.val >= Price(BSMAnalytical(args.S, args.K, args.T, args.r, args.sigma,
                                            args.c,
                                            IF args.fn = "baw_call" THEN "call" ELSE "put"))

\* C8: put-call parity: the call price minus the put price of one contract
\* equals S*exp(-cT) - K*exp(-rT).
C8_PutCallParity ==
    args.fn = "bsm" =>
        \A x \in quotes, y \in quotes :
            (x.of = "call" /\ y.of = "put") =>
                x.price - y.price =
                    args.S * Exp(Mul(-args.c, args.T)) - args.K * Exp(Mul(-args.r, args.T))

C8_Witness ==
    /\ args.fn = "bsm"
    /\ args.r # args.c
    /\ \E x \in quotes, y \in quotes :
          x.of = "call" /\ y.of = "put" /\ x.price > 0 /\ y.price > 0 /\ x.price # y.price

\* a call of implied_volatility that passed the entry checks with valid inputs
IVValidRun ==
    /\ args.fn = "iv"
    /\ args.T > 0
    /\ args.option_type \in {"call", "put"}
    /\ args.market_price > ForwardIntrinsic

\* iterations still possible before the call must have returned
IVBudget ==
    CASE pc = "newton" -> (max_iter - iv.n) + max_iter + 2
      [] pc = "bisect" -> (max_iter - iv.b) + 1
      [] OTHER -> 0

C9_Bounded ==
    IVValidRun =>
        /\ iv.n \in 0 .. max_iter
        /\ iv.b \in 0 .. max_iter
        /\ pc \in {"newton", "bisect", "done"}
        /\ pc = "newton" => iv.phase = "newton"
        /\ pc = "bisect" => iv.phase = "bisect" /\ iv.n >= 1
        /\ pc = "done" =>
              /\ result.kind = "value"
              /\ iv.phase = "bisect" => result.val = (iv.low + iv.high) \div 2

\* C9: with valid inputs implied_volatility runs at most max_iter Newton
\* iterations, then at most max_iter bisection iterations, every step uses up
\* the remaining budget, and it always returns a volatility: the bracket
\* midpoint when the bisection cap is exhausted, never an error.
C9_TerminatesWithValue ==
    /\ []C9_Bounded
    /\ [][(IVValidRun /\ pc # "idle") =>
            (IVBudget' < IVBudget /\ IVBudget' >= 0 /\ iv'.n >= iv.n /\ iv'.b >= iv.b)]_vars

C9_Witness ==
    /\ IVValidRun
    /\ pc = "done"
    /\ iv.n = max_iter
    /\ iv.b = max_iter
    /\ result.kind = "value"

InBand(x) == x >= SIGMA_LOW /\ x <= SIGMA_HIGH

C10_Band ==
    args.fn = "iv" =>
        /\ \A x \in priced : InBand(x)
        /\ result.kind = "value" => InBand(result.val)
        /\ (pc = "newton" /\ iv.n = 0) => iv.sigma = SIGMA_START
        /\ iv.phase = "newton" => iv.b = 0

\* one Newton iteration decides in the order tolerance, vega, band
C10_NewtonOrder ==
    (pc = "newton" /\ iv.n < max_iter /\ args.T > 0
        /\ Lower(args.option_type) \in {"call", "put"}) =>
        LET o == BSMAnalytical(args.S, args.K, args.T, args.r, iv.sigma, args.c,
                               args.option_type)
            diff == Price(o) - args.market_price
            sigma_new == iv.sigma - Quot(diff, Vega(o))
        IN  IF Abs(diff) < tol
            THEN pc' = "done" /\ result' = Value(iv.sigma) /\ iv'.b = 0
            ELSE IF Vega(o) < VEGA_MIN THEN pc' = "bisect"
            ELSE IF sigma_new < SIGMA_LOW \/ sigma_new > SIGMA_HIGH THEN pc' = "bisect"
            ELSE pc' = "newton" /\ iv'.sigma = sigma_new

C10_Phases ==
    /\ (pc # "bisect" /\ pc' = "bisect") =>
          (pc = "newton" /\ iv'.low = SIGMA_LOW /\ iv'.high = SIGMA_HIGH /\ iv'.b = 0)
    /\ pc = "bisect" => pc' \in {"bisect", "done"}
    /\ pc = "newton" => pc' \in {"newton", "bisect", "done"}
    /\ (pc = "bisect" /\ iv.b = 0) => (pc' = "bisect" \/ pc' = "done") /\ iv'.b = 1

\* C10: Newton starts at 0.2 and checks tolerance, then vega, then the band;
\* bisection runs exactly when Newton did not return, from the full bracket
\* [1e-8, 5.0]; Newton is never re-entered; every volatility priced or
\* returned lies in [1e-8, 5.0].
C10_PhaseOrdering ==
    /\ []C10_Band
    /\ [][args.fn = "iv" => (C10_NewtonOrder /\ C10_Phases)]_vars

C10_Witness ==
    /\ args.fn = "iv"
    /\ pc = "bisect"
    /\ iv.n \in 2 .. (max_iter - 1)
    /\ iv.b > 0
    /\ iv.sigma # SIGMA_START

\* a trinomial tree built from inputs with sigma > 0, T > 0 and n >= 1
ValidTrinomial ==
    /\ tree # None
    /\ tree.kind = "trinomial"
    /\ tree.sigma > 0
    /\ tree.T > 0
    /\ tree.n >= 1

\* C11: after TrinomialTree construction with sigma > 0, T > 0 and n >= 1 the
\* up and down weights are the raw values floored at zero, the middle weight is
\* 1 - p_u - p_d, the three sum to 1, and they are a probability distribution
\* (each weight lies in 0 .. 1).
C11_BranchWeightsDistribution ==
    ValidTrinomial =>
        LET shift == TriShift(tree.r, tree.sigma, tree.c, tree.dt)
        IN  /\ tree.p_u = Max(SC \div 6 + shift, 0)
            /\ tree.p_d = Max(SC \div 6 - shift, 0)
            /\ tree.p_m = SC - tree.p_u - tree.p_d
            /\ tree.p_u + tree.p_m + tree.p_d = SC
            /\ \A w \in {tree.p_u, tree.p_m, tree.p_d} : w >= 0 /\ w <= SC

\* the value of node (j, i) of the binomial lattice as C12 states it: the
\* intrinsic payoff on the terminal layer, otherwise the discounted weighted
\* average of the node's two children of step i + 1, raised to the intrinsic
\* value at the node when the style is american
RECURSIVE NodeOfLayer(_, _, _, _)
NodeOfLayer(t, style, j, i) ==
    IF i >= t.n THEN LatIntrinsic(t, t.stock_tree[<<j, t.n>>])
    ELSE LET up == NodeOfLayer(t, style, j, i + 1)
             down == NodeOfLayer(t, style, j + 1, i + 1)
             continuation == Div(t.q * up + (SC - t.q) * down, t.R)
         IN  IF style = "american"
             THEN Max(continuation, LatIntrinsic(t, t.stock_tree[<<j, i>>]))
             ELSE continuation

\* during the pass at step i, node j: entries below j already hold step i,
\* entries j .. i + 1 still hold step i + 1, entry k > i + 1 holds step k
C12_Layers ==
    pc = "bin_loop" =>
        /\ tree.n >= 1
        /\ DOMAIN lat.option = 0 .. tree.n
        /\ lat.i \in -1 .. tree.n - 1
        /\ lat.j \in 0 .. Max(lat.i, 0)
        /\ \A k \in 0 .. tree.n :
              lat.option[k] =
                  IF k < lat.j THEN NodeOfLayer(tree, lat.style, k, lat.i)
                  ELSE NodeOfLayer(tree, lat.style, k, Max(k, lat.i + 1))

\* one step of the pass: it starts at step n - 1, sweeps the nodes 0 .. i of
\* step i in order, then moves to step i - 1, and returns the root after step 0
C12_Pass ==
    /\ (pc # "bin_loop" /\ pc' = "bin_loop") =>
          /\ lat'.i = tree.n - 1
          /\ lat'.j = 0
    /\ (pc = "bin_loop" /\ pc' = "bin_loop") =>
          /\ lat.i >= 0
          /\ lat'.style = lat.style
          /\ IF lat.j < lat.i
             THEN lat'.i = lat.i /\ lat'.j = lat.j + 1
             ELSE lat'.i = lat.i - 1 /\ lat'.j = 0
    /\ (pc = "bin_loop" /\ pc' # "bin_loop") =>
          /\ lat.i = -1
          /\ result' = Value(NodeOfLayer(tree, lat.style, 0, 0))

\* C12: BinomialTree.price is a single backward pass over the steps
\* n-1, ..., 0, each visited once in decreasing order; every node of step i
\* gets the discounted weighted average of its two children of step i + 1 (the
\* in-place update never reads an overwritten entry), raised to the intrinsic
\* value for the american style only; the root's value is returned.
C12_SingleBackwardPass == []C12_Layers /\ [][C12_Pass]_vars

\* an american pass over at least two steps has finished, and early exercise
\* made the root worth more than the european root
C12_Witness ==
    /\ pc = "bin_loop"
    /\ tree.n >= 2
    /\ lat.i = -1
    /\ lat.style = "american"
    /\ tree.option_type = "put"
    /\ lat.option[0] > NodeOfLayer(tree, "european", 0, 0)

\* the layers and child indices of TrinomialTree.price for a tree with n >= 1;
\* node k of the layer of step s has the log-price offset k - s
C13_Indices ==
    (pc = "tri_loop" /\ tree.n >= 1) =>
        /\ lat.step \in -1 .. tree.n - 1
        /\ DOMAIN lat.option = 0 .. 2 * (lat.step + 1)
        /\ lat.step >= 0 =>
              LET j == lat.i - lat.step
                  down == IdxDown(lat.step, lat.i)
                  mid == IdxMid(lat.step, lat.i)
                  up == IdxUp(lat.step, lat.i)
              IN  /\ lat.i \in 0 .. 2 * lat.step
                  /\ DOMAIN lat.new_option = 0 .. 2 * lat.step
                  /\ down < mid /\ mid < up
                  /\ {down, mid, up} \subseteq 0 .. 2 * (lat.step + 1)
                  /\ down - (lat.step + 1) = j - 1
                  /\ mid - (lat.step + 1) = j
                  /\ up - (lat.step + 1) = j + 1

\* the pass starts on a terminal layer of 2n + 1 nodes and returns the single
\* node of the final layer
C13_Ends ==
    /\ (pc # "tri_loop" /\ pc' = "tri_loop" /\ tree.n >= 1) =>
          /\ Cardinality(DOMAIN lat'.option) = 2 * tree.n + 1
          /\ lat'.step = tree.n - 1
    /\ (pc = "tri_loop" /\ pc' # "tri_loop" /\ tree.n >= 1) =>
          /\ lat.step = -1
          /\ DOMAIN lat.option = {0}
          /\ result' = Value(lat.option[0])

\* C13: in TrinomialTree.price with n >= 1, at every node of every step the
\* child indices idx_down < idx_mid < idx_up lie within 0 .. 2*(step+1) of the
\* previous layer, which has 2*(step+1)+1 entries (2n+1 at the terminal layer),
\* and are the nodes at log-price offsets j-1, j, j+1; the final layer has one
\* node, whose value is returned.
C13_ChildIndicesInRange == []C13_Indices /\ [][C13_Ends]_vars

\* the last node of a step above step 0: idx_up is the top of the previous layer
C13_Witness ==
    /\ pc = "tri_loop"
    /\ tree.n >= 2
    /\ lat.step >= 1
    /\ lat.i = 2 * lat.step
    /\ IdxUp(lat.step, lat.i) = 2 * (lat.step + 1)
    /\ IdxDown(lat.step, 0) = 0

====
